---- MODULE Spec2Model ----
(***************************************************************************)
(* Canonical JSON encoder of src/interchange/cjson/mod.rs.                 *)
(*                                                                         *)
(* A byte is an integer 0..255, a Rust String its sequence of UTF-8 bytes. *)
(* A 64-bit magnitude is the triple <<h, m, l>> of its base-10^9 limbs     *)
(* (value h*10^18 + m*10^9 + l), so that the i64/u64 ranges keep their     *)
(* real width.                                                             *)
(***************************************************************************)
EXTENDS Integers, Sequences, FiniteSets, TLC

VARIABLES
    encFail,   \* the strings on which serde_json::to_string returns Err
    op,        \* the adapter operation that ran last
    raw,       \* argument of the last Json::canonicalize call
    res,       \* its result
    raw0,      \* argument of the Json::canonicalize call before it
    res0,      \* its result
    value,     \* argument of the last to_writer call
    sink0,     \* content of the external writer before the last to_writer
    sink,      \* content of the external writer after it
    twres,     \* result of the last to_writer
    parsed     \* result of the last from_slice, called on the bytes in res

vars == <<encFail, op, raw, res, raw0, res0, value, sink0, sink, twres, parsed>>

\* ------------------------------------------------------------------ bounds
\* longest array / largest object among the generated inputs
MaxLen == 2

\* ------------------------------------------------------------------- bytes
LF == 10
QUOTE == 34
COMMA == 44
MINUS == 45
DIGIT0 == 48
COLON == 58
LBRACKET == 91
BACKSLASH == 92
RBRACKET == 93
LBRACE == 123
RBRACE == 125

NULL_LIT == <<110, 117, 108, 108>>
TRUE_LIT == <<116, 114, 117, 101>>
FALSE_LIT == <<102, 97, 108, 115, 101>>

NoCall == <<"NoCall">>
Ok(v) == <<"Ok", v>>
Err(e) == <<"Err", e>>
IsOk(r) == r[1] = "Ok"
IsErr(r) == r[1] = "Err"

\* ------------------------------------------------------- 64-bit magnitudes
Limb == 10^9
Zero == <<0, 0, 0>>
I64_MAX == <<9, 223372036, 854775807>>
I64_MIN_MAG == <<9, 223372036, 854775808>>
U64_MAX == <<18, 446744073, 709551615>>

MagLeq(a, b) ==
    \/ a[1] < b[1]
    \/ a[1] = b[1] /\ a[2] < b[2]
    \/ a[1] = b[1] /\ a[2] = b[2] /\ a[3] <= b[3]

\* n / 10 and n % 10, by long division over the limbs
Div10(n) ==
    <<n[1] \div 10,
      (n[1] % 10) * (Limb \div 10) + (n[2] \div 10),
      (n[2] % 10) * (Limb \div 10) + (n[3] \div 10)>>
Mod10(n) == n[3] % 10

\* --------------------------------------------------- serde_json::Number
\* N::PosInt(u64), N::NegInt(i64) (always negative; mag is |n|),
\* N::Float(f64) (named by its literal)
PosInt(mag) == [k |-> "PosInt", mag |-> mag]
NegInt(mag) == [k |-> "NegInt", mag |-> mag]
Float(lit) == [k |-> "Float", lit |-> lit]

None == <<"None">>
Some(v) == <<"Some", v>>

\* cjson::Number
I64(neg, mag) == <<"I64", neg, mag>>
U64(mag) == <<"U64", mag>>

as_i64(n) ==
    CASE n.k = "PosInt" -> IF MagLeq(n.mag, I64_MAX) THEN Some(I64(FALSE, n.mag)) ELSE None
      [] n.k = "NegInt" -> Some(I64(TRUE, n.mag))
      [] OTHER -> None

as_u64(n) ==
    CASE n.k = "PosInt" -> Some(U64(n.mag))
      [] OTHER -> None

\* ------------------------------------------------ values (raw and canonical)
\* serde_json::Value and cjson::Value share the shape <<tag, payload>>; an
\* object is the sequence of its <<key, value>> entries in iteration order.
Null == <<"Null">>
Bool(b) == <<"Bool", b>>
Number(n) == <<"Number", n>>
String(s) == <<"String", s>>
Array(a) == <<"Array", a>>
Object(o) == <<"Object", o>>

\* Ord for String: lexicographic on the UTF-8 bytes
RECURSIVE KeyLessFrom(_, _, _)
KeyLessFrom(a, b, i) ==
    IF i > Len(b) THEN FALSE
    ELSE IF i > Len(a) THEN TRUE
    ELSE IF a[i] # b[i] THEN a[i] < b[i]
    ELSE KeyLessFrom(a, b, i + 1)

KeyLessShortlex(a, b) ==
    Len(a) < Len(b) \/ (Len(a) = Len(b) /\ KeyLessFrom(a, b, 1))

KeyLess(a, b) == KeyLessFrom(a, b, 1)

\* BTreeMap::insert on the key-ordered entry sequence
RECURSIVE InsertAt(_, _, _, _)
InsertAt(m, k, v, i) ==
    IF i > Len(m) THEN Append(m, <<k, v>>)
    ELSE IF m[i][1] = k THEN [m EXCEPT ![i] = <<k, v>>]
    ELSE IF KeyLess(k, m[i][1])
         THEN SubSeq(m, 1, i - 1) \o <<<<k, v>>>> \o SubSeq(m, i, Len(m))
    ELSE InsertAt(m, k, v, i + 1)

BTreeInsertUnordered(m, k, v) == Append(m, <<k, v>>)

BTreeInsert(m, k, v) == InsertAt(m, k, v, 1)

\* ----------------------------------------------------------------- convert
UNSUPPORTED == "only i64 and u64 are supported"

UnsupportedNumberNaming(n) == <<UNSUPPORTED, n>>

UnsupportedNumber(n) == UNSUPPORTED

convertNumber(n) ==
    LET i == as_i64(n)
        u == IF i = None THEN as_u64(n) ELSE i
    IN IF u = None THEN Err(UnsupportedNumber(n)) ELSE Ok(Number(u[2]))

RECURSIVE convert(_), convertArray(_, _, _), convertObject(_, _, _), convertArraySkipping(_, _, _)

convertArraySkipping(arr, i, out) ==
    IF i > Len(arr) THEN Ok(Array(out))
    ELSE LET r == convert(arr[i])
         IN IF IsErr(r) THEN convertArraySkipping(arr, i + 1, out)
            ELSE convertArraySkipping(arr, i + 1, Append(out, r[2]))

convertArray(arr, i, out) ==
    IF i > Len(arr) THEN Ok(Array(out))
    ELSE LET r == convert(arr[i])
         IN IF IsErr(r) THEN r
            ELSE convertArray(arr, i + 1, Append(out, r[2]))

convertObject(obj, i, out) ==
    IF i > Len(obj) THEN Ok(Object(out))
    ELSE LET r == convert(obj[i][2])
         IN IF IsErr(r) THEN r
            ELSE convertObject(obj, i + 1, BTreeInsert(out, obj[i][1], r[2]))

convert(jsn) ==
    CASE jsn[1] = "Null" -> Ok(Null)
      [] jsn[1] = "Bool" -> Ok(jsn)
      [] jsn[1] = "Number" -> convertNumber(jsn[2])
      [] jsn[1] = "Array" -> convertArray(jsn[2], 1, <<>>)
      [] jsn[1] = "Object" -> convertObject(jsn[2], 1, <<>>)
      [] jsn[1] = "String" -> Ok(String(jsn[2]))

\* ------------------------------------------------------------------- write
\* itoa::write: minimal decimal digits, '-' first for a negative i64
RECURSIVE Digits(_)
Digits(n) == IF n = Zero THEN <<>> ELSE Append(Digits(Div10(n)), DIGIT0 + Mod10(n))

itoa_u64(mag) == IF mag = Zero THEN <<DIGIT0>> ELSE Digits(mag)

itoa_i64_unsigned(neg, mag) == itoa_u64(mag)

itoa_i64(neg, mag) == (IF neg THEN <<MINUS>> ELSE <<>>) \o itoa_u64(mag)

\* serde_json's string escaping (format_escaped_str_contents): the quote, the
\* backslash and the bytes below 0x20 are escaped, every other byte is copied
HexDigit(d) == IF d < 10 THEN DIGIT0 + d ELSE 87 + d

EscapeByteKeepingBackslash(c) ==
    CASE c = QUOTE -> <<BACKSLASH, QUOTE>>
      [] c = LF -> <<BACKSLASH, 110>>
      [] OTHER -> <<c>>

EscapeByteKeepingNewline(c) ==
    CASE c = QUOTE -> <<BACKSLASH, QUOTE>>
      [] c = BACKSLASH -> <<BACKSLASH, BACKSLASH>>
      [] OTHER -> <<c>>

EscapeByte(c) ==
    CASE c = QUOTE -> <<BACKSLASH, QUOTE>>
      [] c = BACKSLASH -> <<BACKSLASH, BACKSLASH>>
      [] c = 8 -> <<BACKSLASH, 98>>
      [] c = 9 -> <<BACKSLASH, 116>>
      [] c = LF -> <<BACKSLASH, 110>>
      [] c = 12 -> <<BACKSLASH, 102>>
      [] c = 13 -> <<BACKSLASH, 114>>
      [] c < 32 /\ c \notin {8, 9, LF, 12, 13} ->
            <<BACKSLASH, 117, DIGIT0, DIGIT0, HexDigit(c \div 16), HexDigit(c % 16)>>
      [] OTHER -> <<c>>

RECURSIVE EscapeFrom(_, _)
EscapeFrom(s, i) == IF i > Len(s) THEN <<>> ELSE EscapeByte(s[i]) \o EscapeFrom(s, i + 1)

\* serde_json::to_string(&serde_json::Value::String(s)); bad holds the strings
\* on which it returns Err
to_string(s, bad) ==
    IF s \in bad THEN Err("serde_json::Error")
    ELSE Ok(<<QUOTE>> \o EscapeFrom(s, 1) \o <<QUOTE>>)

\* Value::write(&self, buf): the pair <<result, buf afterwards>>; buf keeps the
\* bytes pushed before a failure
RECURSIVE write(_, _, _), writeArray(_, _, _, _, _), writeObject(_, _, _, _, _)
RECURSIVE writeArrayLeadingComma(_, _, _, _, _)

writeArrayLeadingComma(arr, i, first, buf, bad) ==
    IF i > Len(arr) THEN <<Ok(<<>>), Append(buf, RBRACKET)>>
    ELSE LET w == write(arr[i], Append(buf, COMMA), bad)
         IN IF IsErr(w[1]) THEN w
            ELSE writeArrayLeadingComma(arr, i + 1, FALSE, w[2], bad)

writeArray(arr, i, first, buf, bad) ==
    IF i > Len(arr) THEN <<Ok(<<>>), Append(buf, RBRACKET)>>
    ELSE LET b1 == IF ~first THEN Append(buf, COMMA) ELSE buf
             w == write(arr[i], b1, bad)
         IN IF IsErr(w[1]) THEN w
            ELSE writeArray(arr, i + 1, FALSE, w[2], bad)

writeObject(obj, i, first, buf, bad) ==
    IF i > Len(obj) THEN <<Ok(<<>>), Append(buf, RBRACE)>>
    ELSE LET b1 == IF ~first THEN Append(buf, COMMA) ELSE buf
             k == to_string(obj[i][1], bad)
         IN IF IsErr(k) THEN <<k, b1>>
            ELSE LET w == write(obj[i][2], Append(b1 \o k[2], COLON), bad)
                 IN IF IsErr(w[1]) THEN w
                    ELSE writeObject(obj, i + 1, FALSE, w[2], bad)

write(v, buf, bad) ==
    CASE v[1] = "Null" -> <<Ok(<<>>), buf \o NULL_LIT>>
      [] v[1] = "Bool" -> <<Ok(<<>>), buf \o (IF v[2] THEN TRUE_LIT ELSE FALSE_LIT)>>
      [] v[1] = "Number" ->
            IF v[2][1] = "I64" THEN <<Ok(<<>>), buf \o itoa_i64(v[2][2], v[2][3])>>
            ELSE <<Ok(<<>>), buf \o itoa_u64(v[2][2])>>
      [] v[1] = "String" ->
            LET s == to_string(v[2], bad)
            IN IF IsErr(s) THEN <<s, buf>> ELSE <<Ok(<<>>), buf \o s[2]>>
      [] v[1] = "Array" -> writeArray(v[2], 1, TRUE, Append(buf, LBRACKET), bad)
      [] v[1] = "Object" -> writeObject(v[2], 1, TRUE, Append(buf, LBRACE), bad)

\* ------------------------------------------------------------ the adapter
\* fn canonicalize: the Writer's result is dropped (let _ =), buf is returned
canonicalize(jsn, bad) ==
    LET converted == convert(jsn)
    IN IF IsErr(converted) THEN converted
       ELSE Ok(write(converted[2], <<>>, bad)[2])

\* Json::canonicalize: map_err(Error::Opaque)
Opaque(msg) == <<"Opaque", msg>>
Json_canonicalize(raw_data, bad) ==
    LET r == canonicalize(raw_data, bad)
    IN IF IsErr(r) THEN Err(Opaque(r[2])) ELSE r

\* Json::serialize (serde_json::to_value): a typed value is <<"Data", v>>, which
\* serializes to the tree v, or <<"Unserializable">>, which serde_json rejects
Data(v) == <<"Data", v>>
Unserializable == <<"Unserializable">>
Json_serialize(data) ==
    IF data[1] = "Data" THEN Ok(data[2]) ELSE Err(<<"Encoding", "serde_json::Error">>)

\* Write::write_all on the external writer: io is <<"Ok">>, or <<"Err", n>> when
\* the writer fails after taking the first n bytes
IoOk == <<"Ok">>
IoErr(n) == <<"Err", n>>
write_all(w, bytes, io) ==
    IF io = IoOk THEN <<Ok(<<>>), w \o bytes>>
    ELSE <<Err(<<"Io", io[2]>>), w \o SubSeq(bytes, 1, io[2])>>

\* Json::to_writer: the pair <<result, writer afterwards>>
Json_to_writer_unchecked(w, data, bad, io) ==
    LET s == Json_serialize(data)
        c == IF IsErr(s) THEN s ELSE Json_canonicalize(s[2], bad)
    IN IF IsErr(c) THEN <<c, w>>
       ELSE <<Ok(<<>>), write_all(w, c[2], io)[2]>>

Json_to_writer(w, data, bad, io) ==
    LET s == Json_serialize(data)
    IN IF IsErr(s) THEN <<s, w>>
       ELSE LET c == Json_canonicalize(s[2], bad)
            IN IF IsErr(c) THEN <<c, w>>
               ELSE LET r == write_all(w, c[2], io)
                    IN IF IsErr(r[1]) THEN r ELSE <<Ok(<<>>), r[2]>>

\* --------------------------------------------- from_slice (serde_json parser)
\* A parse step returns <<"Ok", value, index after it>> or PErr.
PErr == <<"Err", "serde_json::Error">>
POk(v, i) == <<"Ok", v, i>>

IsWs(c) == c \in {32, 9, LF, 13}
IsDigit(c) == c >= DIGIT0 /\ c <= DIGIT0 + 9

RECURSIVE SkipWs(_, _)
SkipWs(b, i) == IF i <= Len(b) /\ IsWs(b[i]) THEN SkipWs(b, i + 1) ELSE i

HasAt(b, i, lit) ==
    i + Len(lit) - 1 <= Len(b) /\ SubSeq(b, i, i + Len(lit) - 1) = lit

HexVal(c) ==
    CASE IsDigit(c) -> c - DIGIT0
      [] c >= 97 /\ c <= 102 -> c - 87
      [] c >= 65 /\ c <= 70 -> c - 55
      [] OTHER -> -1

\* UTF-8 of a code point of the basic plane
Utf8(cp) ==
    CASE cp < 128 -> <<cp>>
      [] cp >= 128 /\ cp < 2048 -> <<192 + (cp \div 64), 128 + (cp % 64)>>
      [] OTHER -> <<224 + (cp \div 4096), 128 + ((cp \div 64) % 64), 128 + (cp % 64)>>

SimpleEscape(e) ==
    CASE e = QUOTE -> QUOTE
      [] e = BACKSLASH -> BACKSLASH
      [] e = 47 -> 47
      [] e = 98 -> 8
      [] e = 102 -> 12
      [] e = 110 -> LF
      [] e = 114 -> 13
      [] e = 116 -> 9
      [] OTHER -> -1

\* the string body from index i (after the opening quote) to the closing quote;
\* surrogate escapes, which to_string never writes, are rejected
RECURSIVE parseStr(_, _, _)
parseStr(b, i, acc) ==
    IF i > Len(b) THEN PErr
    ELSE IF b[i] = QUOTE THEN POk(acc, i + 1)
    ELSE IF b[i] = BACKSLASH THEN
        IF i + 1 > Len(b) THEN PErr
        ELSE IF b[i + 1] = 117 THEN
            IF i + 5 > Len(b) \/ \E j \in 2..5 : HexVal(b[i + j]) < 0 THEN PErr
            ELSE LET cp == HexVal(b[i + 2]) * 4096 + HexVal(b[i + 3]) * 256
                           + HexVal(b[i + 4]) * 16 + HexVal(b[i + 5])
                 IN IF cp >= 55296 /\ cp <= 57343 THEN PErr
                    ELSE parseStr(b, i + 6, acc \o Utf8(cp))
        ELSE IF SimpleEscape(b[i + 1]) < 0 THEN PErr
        ELSE parseStr(b, i + 2, Append(acc, SimpleEscape(b[i + 1])))
    ELSE IF b[i] < 32 THEN PErr
    ELSE parseStr(b, i + 1, Append(acc, b[i]))

\* n * 10 + d over the limbs (n <= U64_MAX keeps every limb in range)
Mul10Add(n, d) ==
    LET top == Limb \div 10
    IN <<n[1] * 10 + (n[2] \div top),
         (n[2] % top) * 10 + (n[3] \div top),
         (n[3] % top) * 10 + d>>

\* the digits from index i: <<magnitude, index after them, overflowed u64>>
RECURSIVE scanDigits(_, _, _, _)
scanDigits(b, i, n, over) ==
    IF i > Len(b) \/ ~IsDigit(b[i]) THEN <<n, i, over>>
    ELSE IF over THEN scanDigits(b, i + 1, n, TRUE)
    ELSE LET n1 == Mul10Add(n, b[i] - DIGIT0)
         IN IF MagLeq(n1, U64_MAX) THEN scanDigits(b, i + 1, n1, FALSE)
            ELSE scanDigits(b, i + 1, n, TRUE)

\* the rest of a number that has a fraction or an exponent
RECURSIVE scanFloat(_, _)
scanFloat(b, i) ==
    IF i <= Len(b) /\ (IsDigit(b[i]) \/ b[i] \in {46, 69, 101, 43, MINUS})
    THEN scanFloat(b, i + 1) ELSE i

parseNumber(b, i) ==
    LET neg == b[i] = MINUS
        j == IF neg THEN i + 1 ELSE i
    IN IF j > Len(b) \/ ~IsDigit(b[j]) THEN PErr
       ELSE IF b[j] = DIGIT0 /\ j + 1 <= Len(b) /\ IsDigit(b[j + 1]) THEN PErr
       ELSE LET d == scanDigits(b, j, Zero, FALSE)
                e == d[2]
            IN IF e <= Len(b) /\ b[e] \in {46, 69, 101}
               THEN LET f == scanFloat(b, e)
                    IN POk(Number(Float(SubSeq(b, i, f - 1))), f)
               ELSE IF d[3] THEN POk(Number(Float(SubSeq(b, i, e - 1))), e)
               ELSE IF ~neg THEN POk(Number(PosInt(d[1])), e)
               ELSE IF d[1] # Zero /\ MagLeq(d[1], I64_MIN_MAG)
                    THEN POk(Number(NegInt(d[1])), e)
               ELSE POk(Number(Float(SubSeq(b, i, e - 1))), e)

\* serde_json Map::insert: a repeated key replaces the earlier value
RECURSIVE MapInsertFrom(_, _, _, _)
MapInsertFrom(m, k, v, i) ==
    IF i > Len(m) THEN Append(m, <<k, v>>)
    ELSE IF m[i][1] = k THEN [m EXCEPT ![i] = <<k, v>>]
    ELSE MapInsertFrom(m, k, v, i + 1)
MapInsert(m, k, v) == MapInsertFrom(m, k, v, 1)

\* keep = TRUE reads the members of an object as written (every member, in the
\* order of the bytes) instead of collecting them into a Map
RECURSIVE parseValue(_, _, _), parseElems(_, _, _, _), parseMembers(_, _, _, _)

parseElems(b, i, acc, keep) ==
    LET v == parseValue(b, i, keep)
    IN IF IsErr(v) THEN v
       ELSE LET j == SkipWs(b, v[3])
            IN IF j > Len(b) THEN PErr
               ELSE IF b[j] = COMMA THEN parseElems(b, j + 1, Append(acc, v[2]), keep)
               ELSE IF b[j] = RBRACKET THEN POk(Array(Append(acc, v[2])), j + 1)
               ELSE PErr

parseMembers(b, i0, acc, keep) ==
    LET i == SkipWs(b, i0)
    IN IF i > Len(b) \/ b[i] # QUOTE THEN PErr
       ELSE LET k == parseStr(b, i + 1, <<>>)
            IN IF IsErr(k) THEN k
               ELSE LET c == SkipWs(b, k[3])
                    IN IF c > Len(b) \/ b[c] # COLON THEN PErr
                       ELSE LET v == parseValue(b, c + 1, keep)
                            IN IF IsErr(v) THEN v
                               ELSE LET j == SkipWs(b, v[3])
                                        m == IF keep THEN Append(acc, <<k[2], v[2]>>)
                                             ELSE MapInsert(acc, k[2], v[2])
                                    IN IF j > Len(b) THEN PErr
                                       ELSE IF b[j] = COMMA THEN parseMembers(b, j + 1, m, keep)
                                       ELSE IF b[j] = RBRACE THEN POk(Object(m), j + 1)
                                       ELSE PErr

parseValue(b, i0, keep) ==
    LET i == SkipWs(b, i0)
    IN IF i > Len(b) THEN PErr
       ELSE CASE b[i] = 110 -> IF HasAt(b, i, NULL_LIT) THEN POk(Null, i + 4) ELSE PErr
              [] b[i] = 116 -> IF HasAt(b, i, TRUE_LIT) THEN POk(Bool(TRUE), i + 4) ELSE PErr
              [] b[i] = 102 -> IF HasAt(b, i, FALSE_LIT) THEN POk(Bool(FALSE), i + 5) ELSE PErr
              [] b[i] = QUOTE ->
                    LET s == parseStr(b, i + 1, <<>>)
                    IN IF IsErr(s) THEN s ELSE POk(String(s[2]), s[3])
              [] b[i] = LBRACKET ->
                    LET j == SkipWs(b, i + 1)
                    IN IF j <= Len(b) /\ b[j] = RBRACKET THEN POk(Array(<<>>), j + 1)
                       ELSE parseElems(b, j, <<>>, keep)
              [] b[i] = LBRACE ->
                    LET j == SkipWs(b, i + 1)
                    IN IF j <= Len(b) /\ b[j] = RBRACE THEN POk(Object(<<>>), j + 1)
                       ELSE parseMembers(b, j, <<>>, keep)
              [] b[i] = MINUS \/ IsDigit(b[i]) -> parseNumber(b, i)
              [] OTHER -> PErr

parseDocument(b, keep) ==
    LET v == parseValue(b, 1, keep)
    IN IF IsErr(v) THEN Err(<<"Encoding", v[2]>>)
       ELSE IF SkipWs(b, v[3]) <= Len(b) THEN Err(<<"Encoding", "trailing characters">>)
       ELSE Ok(v[2])

\* Json::from_slice::<serde_json::Value>
Json_from_slice(slice) == parseDocument(slice, FALSE)

\* ------------------------------------------------------------------ inputs
One == <<0, 0, 1>>
Billion == <<0, 1, 0>>

\* 18446744073709551616 = u64::MAX + 1, which serde_json holds as a float
TwoTo64 == <<49, 56, 52, 52, 54, 55, 52, 52, 48, 55, 51, 55, 48, 57, 53, 53, 49, 54, 49, 54>>

Numbers ==
    {PosInt(Zero), PosInt(One), PosInt(Billion), PosInt(I64_MAX), PosInt(I64_MIN_MAG),
     PosInt(U64_MAX), NegInt(One), NegInt(I64_MIN_MAG),
     Float(<<49, 46, 53>>), Float(<<50, 46, 53>>), Float(<<49, 46, 48>>), Float(TwoTo64)}

Strings ==
    {<<>>, <<97>>, <<98>>, <<LF>>, <<97, LF, 98>>, <<BACKSLASH, 110>>, <<BACKSLASH>>,
     <<QUOTE>>, <<49>>, <<1>>, <<127>>, NULL_LIT, <<195, 169>>,
     <<97, QUOTE, COMMA, QUOTE, 98>>}

Leaves ==
    {Null, Bool(TRUE), Bool(FALSE)} \cup {Number(n) : n \in Numbers}
        \cup {String(s) : s \in Strings}

\* the members of the generated containers
ElemVals == {Number(PosInt(One)), String(<<97>>), String(<<98>>), Number(Float(<<49, 46, 53>>))}
Keys == {<<66>>, <<97, LF>>, <<98>>}
MemberVals == {Number(PosInt(One)), Number(Float(<<49, 46, 53>>))}

SeqsUpTo(S, n) == UNION {[1..k -> S] : k \in 0..n}

FlatArrays == {Array(a) : a \in SeqsUpTo(ElemVals, MaxLen)}
FlatObjects ==
    {Object(o) : o \in {e \in SeqsUpTo(Keys \X MemberVals, MaxLen) :
                            \A i, j \in 1..Len(e) : i # j => e[i][1] # e[j][1]}}
Flat == FlatArrays \cup FlatObjects
Nested == {Array(<<c>>) : c \in Flat} \cup {Object(<<<<<<98>>, c>>>>) : c \in Flat}

Str(t) == String(t)
SmallInt(n) == Number(PosInt(<<0, 0, n>>))
\* the values of the doc tests (lines 177 and 241-250), in two member orders
DocFooBaz ==
    Object(<< <<<<102, 111, 111>>, Str(<<98, 97, 114>>)>>,
              <<<<98, 97, 122>>, Str(<<113, 117, 117, 120>>)>> >>)
DocO(members) == Object(<< <<<<111>>, Object(members)>> >>)
DocMembers ==
    << <<<<97>>, Array(<<SmallInt(1), SmallInt(2), SmallInt(3)>>)>>,
       <<<<115>>, Str(<<115, 116, 114, 105, 110, 103>>)>>,
       <<<<110>>, SmallInt(123)>>,
       <<<<116>>, Bool(TRUE)>>,
       <<<<102>>, Bool(FALSE)>>,
       <<<<48>>, Null>> >>
Reverse(q) == [i \in 1..Len(q) |-> q[Len(q) + 1 - i]]
DocValues ==
    {DocFooBaz, Object(Reverse(DocFooBaz[2])), DocO(DocMembers), DocO(Reverse(DocMembers)),
     Array(<<Str(<<97, QUOTE, COMMA, QUOTE, 98>>)>>)}

RawValues == Leaves \cup Flat \cup Nested \cup DocValues

TypedValues == {Data(v) : v \in RawValues} \cup {Unserializable}
Writers == {<<>>, <<120>>}
\* the string encoder's Err outcomes considered by SpecEncErr
EncFailures == {{}, {<<97>>}}

\* ----------------------------------------------------------- state machine
Init ==
    /\ encFail = {}
    /\ op = "init"
    /\ raw = NoCall /\ res = NoCall /\ raw0 = NoCall /\ res0 = NoCall
    /\ value = NoCall /\ sink0 = <<>> /\ sink = <<>> /\ twres = NoCall
    /\ parsed = NoCall

InitEncErr ==
    /\ encFail \in EncFailures
    /\ op = "init"
    /\ raw = NoCall /\ res = NoCall /\ raw0 = NoCall /\ res0 = NoCall
    /\ value = NoCall /\ sink0 = <<>> /\ sink = <<>> /\ twres = NoCall
    /\ parsed = NoCall

\* The operations are functions of their arguments alone, so a behaviour is one
\* client session: to_writer on a writer, or Json::canonicalize once or twice
\* (the second result is compared with the first), or Json::canonicalize and
\* then from_slice on its bytes and Json::canonicalize of the parsed value.

\* Json::canonicalize(&raw_data); the call before it is remembered
Canonicalize ==
    /\ op = "init" \/ (op = "canonicalize" /\ raw0 = NoCall)
    /\ \E v \in RawValues :
        /\ op' = "canonicalize"
        /\ raw' = v
        /\ res' = Json_canonicalize(v, encFail)
        /\ raw0' = IF op = "canonicalize" THEN raw ELSE NoCall
        /\ res0' = IF op = "canonicalize" THEN res ELSE NoCall
        /\ value' = NoCall /\ sink0' = <<>> /\ sink' = <<>> /\ twres' = NoCall
        /\ parsed' = NoCall
        /\ UNCHANGED encFail

\* what write_all can do with the bytes of v: take them all, or fail after the
\* first n of them
IoOutcomes(v, bad) ==
    LET s == Json_serialize(v)
        c == IF IsErr(s) THEN s ELSE Json_canonicalize(s[2], bad)
    IN IF IsErr(c) THEN {IoOk} ELSE {IoOk} \cup {IoErr(n) : n \in 0..(Len(c[2]) - 1)}

\* Json::to_writer(writer, &value) on a writer holding w
ToWriter ==
    /\ op = "init"
    /\ \E v \in TypedValues, w \in Writers : \E io \in IoOutcomes(v, encFail) :
        LET r == Json_to_writer(w, v, encFail, io)
        IN /\ op' = "to_writer"
           /\ value' = v
           /\ sink0' = w
           /\ sink' = r[2]
           /\ twres' = r[1]
           /\ raw' = NoCall /\ res' = NoCall /\ raw0' = NoCall /\ res0' = NoCall
           /\ parsed' = NoCall
           /\ UNCHANGED encFail

\* Json::from_slice on the bytes canonicalize returned
FromSlice ==
    /\ op = "canonicalize" /\ raw0 = NoCall
    /\ IsOk(res)
    /\ op' = "from_slice"
    /\ parsed' = Json_from_slice(res[2])
    /\ UNCHANGED <<encFail, raw, res, raw0, res0, value, sink0, sink, twres>>

\* Json::canonicalize of the value from_slice returned
CanonicalizeParsed ==
    /\ op = "from_slice"
    /\ IsOk(parsed)
    /\ op' = "recanonicalize"
    /\ raw' = parsed[2]
    /\ res' = Json_canonicalize(parsed[2], encFail)
    /\ raw0' = raw
    /\ res0' = res
    /\ UNCHANGED <<encFail, value, sink0, sink, twres, parsed>>

Next == Canonicalize \/ ToWriter \/ FromSlice \/ CanonicalizeParsed

Spec == Init /\ [][Next]_vars
SpecEncErr == InitEncErr /\ [][Next]_vars

\* ---------------------------------------------------- vocabulary of the properties
Range(q) == {q[i] : i \in 1..Len(q)}
Called == op = "canonicalize"
CalledTwice == op = "canonicalize" /\ raw0 # NoCall
KeysOf(o) == {o[i][1] : i \in 1..Len(o)}
Lookup(o, k) == o[CHOOSE i \in 1..Len(o) : o[i][1] = k][2]

\* equality of JSON values: arrays as sequences, objects as key/value sets
RECURSIVE SameJson(_, _)
SameJson(a, b) ==
    /\ a[1] = b[1]
    /\ CASE a[1] = "Array" ->
                /\ Len(a[2]) = Len(b[2])
                /\ \A i \in 1..Len(a[2]) : SameJson(a[2][i], b[2][i])
         [] a[1] = "Object" ->
                /\ KeysOf(a[2]) = KeysOf(b[2])
                /\ \A k \in KeysOf(a[2]) : SameJson(Lookup(a[2], k), Lookup(b[2], k))
         [] a[1] = "Number" -> a[2].k = b[2].k /\ a[2] = b[2]
         [] a[1] = "Null" -> TRUE
         [] OTHER -> a[2] = b[2]

\* a < b in the lexicographic order of the bytes
LexLess(a, b) ==
    \E i \in 1..Len(b) :
        /\ i - 1 <= Len(a)
        /\ SubSeq(a, 1, i - 1) = SubSeq(b, 1, i - 1)
        /\ (i > Len(a) \/ a[i] < b[i])

RECURSIVE Concat(_)
Concat(qs) == IF qs = <<>> THEN <<>> ELSE Head(qs) \o Concat(Tail(qs))
RECURSIVE JoinComma(_)
JoinComma(qs) ==
    IF Len(qs) = 0 THEN <<>>
    ELSE IF Len(qs) = 1 THEN qs[1]
    ELSE qs[1] \o <<COMMA>> \o JoinComma(Tail(qs))

\* ---------------------------------------------------------------------- C1
\* C1: two Json::canonicalize calls on values that are equal as JSON (same
\* key/value pairs, the mappings iterating in any order, at any depth) return
\* the same result, byte for byte.
C1_OrderIndependence ==
    (CalledTwice /\ SameJson(raw0, raw)) => res0 = res

\* an array holding a two-member object whose members come in the two orders
C1_Witness ==
    /\ CalledTwice /\ IsOk(res) /\ SameJson(raw0, raw)
    /\ raw[1] = "Array" /\ Len(raw[2]) = 1 /\ raw[2][1][1] = "Object"
    /\ Len(raw[2][1][2]) = 2
    /\ raw0[2][1][2][1][1] = raw[2][1][2][2][1]
    /\ raw0[2][1][2][1][1] # raw[2][1][2][1][1]

\* ---------------------------------------------------------------------- C2
RECURSIVE KeysAscending(_)
KeysAscending(v) ==
    CASE v[1] = "Array" -> \A i \in 1..Len(v[2]) : KeysAscending(v[2][i])
      [] v[1] = "Object" ->
            /\ \A i \in 1..(Len(v[2]) - 1) : LexLess(v[2][i][1], v[2][i + 1][1])
            /\ \A i \in 1..Len(v[2]) : KeysAscending(v[2][i][2])
      [] OTHER -> TRUE

\* C2: read member by member, the bytes canonicalize returns hold, in every
\* object at every depth, keys in strictly ascending byte order.
C2_KeysAscending ==
    (Called /\ IsOk(res)) =>
        LET p == parseDocument(res[2], TRUE)
        IN IsOk(p) /\ KeysAscending(p[2])

\* a nested object given with its keys in descending order
C2_Witness ==
    /\ Called /\ IsOk(res)
    /\ raw[1] = "Object" /\ Len(raw[2]) = 1 /\ raw[2][1][2][1] = "Object"
    /\ Len(raw[2][1][2][2]) = 2
    /\ LexLess(raw[2][1][2][2][2][1], raw[2][1][2][2][1][1])

\* ---------------------------------------------------------------------- C3
\* the value of a number is an integer of the i64 or u64 range: for a float,
\* its literal has no exponent, only zeros after the point if it has one, and
\* its integer part fits
FloatIsIntegral(lit) ==
    LET neg == lit[1] = MINUS
        d == scanDigits(lit, IF neg THEN 2 ELSE 1, Zero, FALSE)
    IN /\ \A i \in 1..Len(lit) : lit[i] \notin {69, 101}
       /\ \A i \in (d[2] + 1)..Len(lit) : lit[i] = DIGIT0
       /\ ~d[3]
       /\ neg => MagLeq(d[1], I64_MIN_MAG)
IntegerValued(n) == n.k # "Float" \/ FloatIsIntegral(n.lit)
\* the number is held by serde_json as an integer (N::PosInt or N::NegInt)
HeldAsInteger(n) == n.k \in {"PosInt", "NegInt"}

RECURSIVE AllIntegerValued(_)
AllIntegerValued(v) ==
    CASE v[1] = "Number" -> IntegerValued(v[2])
      [] v[1] = "Array" -> \A i \in 1..Len(v[2]) : AllIntegerValued(v[2][i])
      [] v[1] = "Object" -> \A i \in 1..Len(v[2]) : AllIntegerValued(v[2][i][2])
      [] OTHER -> TRUE

RECURSIVE AllHeldAsInteger(_)
AllHeldAsInteger(v) ==
    CASE v[1] = "Number" -> HeldAsInteger(v[2])
      [] v[1] = "Array" -> \A i \in 1..Len(v[2]) : AllHeldAsInteger(v[2][i])
      [] v[1] = "Object" -> \A i \in 1..Len(v[2]) : AllHeldAsInteger(v[2][i][2])
      [] OTHER -> TRUE

\* C3, by the numbers' values: canonicalize succeeds exactly when every number of the tree
\* has an integer value in the i64 or u64 range.
C3_ByValue ==
    Called => (IsOk(res) <=> AllIntegerValued(raw))

\* C3: canonicalize succeeds exactly when every number of the tree is held as
\* an integer; otherwise it returns the unsupported-number error and no bytes.
C3_NumericDomain ==
    Called =>
        /\ IsOk(res) <=> AllHeldAsInteger(raw)
        /\ IsErr(res) => res = Err(Opaque(UNSUPPORTED))

\* an array whose second element is the first unsupported number
C3_Witness ==
    /\ Called /\ IsErr(res)
    /\ raw[1] = "Array" /\ Len(raw[2]) = 2
    /\ AllHeldAsInteger(raw[2][1]) /\ ~AllHeldAsInteger(raw[2][2])

\* ---------------------------------------------------------------------- C4
\* C4: parsing the bytes of a successful canonicalize succeeds, and
\* canonicalizing the parsed value succeeds and returns the same bytes.
C4_Idempotent ==
    /\ op = "from_slice" => IsOk(parsed)
    /\ op = "recanonicalize" => (IsOk(res) /\ res = res0)

\* the doc-test object, parsed back and canonicalized again
C4_Witness ==
    /\ op = "recanonicalize" /\ IsOk(res)
    /\ raw0 = DocO(Reverse(DocMembers))

\* ---------------------------------------------------------------------- C5
WriterSucceeds(v, bad) ==
    LET c == convert(v) IN IsOk(c) /\ IsOk(write(c[2], <<>>, bad)[1])

C6_ToWriter ==
    op = "to_writer" =>
        LET s == Json_serialize(value)
            c == IF IsErr(s) THEN s ELSE Json_canonicalize(s[2], encFail)
        IN /\ IsErr(c) => (sink = sink0 /\ IsErr(twres))
           /\ IsOk(twres) => (IsOk(c) /\ sink = sink0 \o c[2])

\* a successful to_writer on a writer that already held a byte
C6_Witness ==
    /\ op = "to_writer" /\ IsOk(twres)
    /\ sink0 # <<>> /\ Len(sink) > Len(sink0) + 2

\* ---------------------------------------------------------------------- C7
PlainOrNewline(s) ==
    \A i \in 1..Len(s) : s[i] = LF \/ (s[i] >= 32 /\ s[i] \notin {QUOTE, BACKSLASH})
NewlineLiteral(s) ==
    <<QUOTE>>
        \o Concat([i \in 1..Len(s) |-> IF s[i] = LF THEN <<BACKSLASH, 110>> ELSE <<s[i]>>])
        \o <<QUOTE>>

\* C7: the bytes canonicalize returns hold no raw newline, and a string value or
\* object key of plain characters and newlines is written between quotes with
\* each newline as \n.
C7_NewlineEscaped ==
    (Called /\ IsOk(res)) =>
        /\ LF \notin Range(res[2])
        /\ (raw[1] = "String" /\ PlainOrNewline(raw[2])) => res[2] = NewlineLiteral(raw[2])
        /\ (raw[1] = "Object" /\ Len(raw[2]) = 1 /\ PlainOrNewline(raw[2][1][1])) =>
              LET lit == NewlineLiteral(raw[2][1][1])
              IN SubSeq(res[2], 1, Len(lit) + 2) = <<LBRACE>> \o lit \o <<COLON>>

\* a string value with a newline in it
C7_Witness ==
    /\ Called /\ IsOk(res)
    /\ raw[1] = "String" /\ LF \in Range(raw[2]) /\ Len(raw[2]) = 3

\* ---------------------------------------------------------------------- C8
Bytes(v) == canonicalize(v, {})[2]
\* the entries of an object in ascending key order
Sorted(o) ==
    [i \in 1..Len(o) |->
        o[CHOOSE j \in 1..Len(o) :
              Cardinality({k \in KeysOf(o) : LexLess(k, o[j][1])}) = i - 1]]

\* C8: an array is written as '[', its elements' encodings in order separated
\* by single commas, ']'; an object as '{', its entries key-literal ':' value
\* in key order separated by single commas, '}'; empty ones as [] and {}.
C8_Containers ==
    (Called /\ IsOk(res)) =>
        /\ raw[1] = "Array" =>
              res[2] = <<LBRACKET>>
                         \o JoinComma([i \in 1..Len(raw[2]) |-> Bytes(raw[2][i])])
                         \o <<RBRACKET>>
        /\ raw[1] = "Object" =>
              res[2] = <<LBRACE>>
                         \o JoinComma([i \in 1..Len(raw[2]) |->
                                Bytes(String(Sorted(raw[2])[i][1])) \o <<COLON>>
                                    \o Bytes(Sorted(raw[2])[i][2])])
                         \o <<RBRACE>>
        /\ raw = Array(<<>>) => res[2] = <<LBRACKET, RBRACKET>>
        /\ raw = Object(<<>>) => res[2] = <<LBRACE, RBRACE>>

\* an array of two elements
C8_Witness ==
    /\ Called /\ IsOk(res)
    /\ raw[1] = "Array" /\ Len(raw[2]) = 2

\* ---------------------------------------------------------------------- C9
\* the first number convert rejects, in the order it visits the tree
RECURSIVE FirstUnsupported(_), FirstUnsupportedIn(_, _)
FirstUnsupportedIn(vs, i) ==
    IF i > Len(vs) THEN None
    ELSE LET f == FirstUnsupported(vs[i])
         IN IF f # None THEN f ELSE FirstUnsupportedIn(vs, i + 1)
FirstUnsupported(v) ==
    CASE v[1] = "Number" -> IF HeldAsInteger(v[2]) THEN None ELSE Some(v[2].lit)
      [] v[1] = "Array" -> FirstUnsupportedIn(v[2], 1)
      [] v[1] = "Object" -> FirstUnsupportedIn([i \in 1..Len(v[2]) |-> v[2][i][2]], 1)
      [] OTHER -> None

\* C9, errors naming the number: two calls that fail on different numbers return different
\* errors.
C9_ErrorsDistinguishable ==
    (CalledTwice /\ IsErr(res0) /\ IsErr(res)
        /\ FirstUnsupported(raw0) # FirstUnsupported(raw)) => res0 # res

\* C9: every rejected number yields the same error, so two calls that fail
\* return equal errors whatever the numbers they failed on.
C9_SameError ==
    (CalledTwice /\ IsErr(res0) /\ IsErr(res)) => res0 = res

\* two failing calls whose first unsupported numbers differ
C9_Witness ==
    /\ CalledTwice /\ IsErr(res0) /\ IsErr(res)
    /\ FirstUnsupported(raw0) # FirstUnsupported(raw)

\* --------------------------------------------------------------------- C10
\* C10: two successful canonicalize calls on values that differ as JSON return
\* different bytes.
C10_Injective ==
    (CalledTwice /\ IsOk(res0) /\ IsOk(res) /\ ~SameJson(raw0, raw)) => res0[2] # res[2]

\* the integer 1 and the string "1"
C10_Witness ==
    /\ CalledTwice /\ IsOk(res0) /\ IsOk(res)
    /\ raw0 = Number(PosInt(One)) /\ raw[1] = "String" /\ raw[2] = <<49>>

====
